---- MODULE Spec2Model ----
(***************************************************************************)
(* Model of seedsync's Controller (src/python/controller/controller.py).  *)
(*                                                                         *)
(* The loop thread runs process(): propagate exceptions, reap one-shot    *)
(* delete workers, dispatch the queued commands, rebuild and publish the  *)
(* model under the model lock.  Client threads enqueue commands and read  *)
(* or subscribe to the model under the same lock.                         *)
(*                                                                         *)
(* Model, ModelBuilder, ModelDiffUtil, Lftp, the scanner, extract and     *)
(* delete processes are collaborators whose code is not in                *)
(* controller.py; they are modelled from their documented interface.     *)
(***************************************************************************)
EXTENDS Naturals, Integers, Sequences, FiniteSets, TLC

\* ------------------------------------------------------------------ bounds
\* Commands a client enqueues over a whole run.
MaxCmds == 2
\* Callbacks attached to one command (0..MaxCallbacks).
MaxCallbacks == 2
\* Long-lived workers that may hold an unpropagated exception at one time.
MaxPending == 2

\* ------------------------------------------------------------------- data
\* File names known to the remote/local file systems.
Names == {"a", "b"}
\* Names the command specification's scanners report (commands may also name "b").
CmdNames == {"a"}

None == "None"

\* ModelFile.State
States == {"DEFAULT", "QUEUED", "DOWNLOADING", "DOWNLOADED",
           "EXTRACTING", "EXTRACTED", "DELETED"}

\* Controller.Command.Action
Actions == {"QUEUE", "STOP", "EXTRACT", "DELETE_LOCAL", "DELETE_REMOTE"}

\* remote_size / local_size: None, the whole size of the file ("Full"), or,
\* for a local copy still being transferred, less than that ("Part").
Sizes == {None, "Part", "Full"}

\* is_dir as the file systems report it for each name.
IsDir(name) == name = "b"

\* ModelFile
ModelFile(name, state, remote_size, local_size) ==
    [name |-> name, is_dir |-> IsDir(name), state |-> state,
     remote_size |-> remote_size, local_size |-> local_size]

ModelFiles ==
    {ModelFile(n, s, r, l) : n \in Names, s \in States, r \in Sizes, l \in Sizes}

\* Absence of a name from a Model.
NoFile == [name |-> None]

\* Model: name -> ModelFile, NoFile for a name the model does not hold.
EmptyModel == [n \in Names |-> NoFile]

\* Model.get_file_names
GetFileNames(m) == {n \in Names : m[n] # NoFile}

\* Controller.Command.  command.callbacks is read only when the command is
\* dispatched, so the number of attached callbacks is drawn there (callbacks are
\* identified by their index in the list).
Command(action, filename) == [action |-> action, filename |-> filename]

\* LftpError messages the transfer engine may raise.
LftpErrors == {"timeout", "refused"}

\* Python's str.format with positional "{}" fields: pieces are the literal
\* parts of the template around its fields; surplus arguments are ignored.
RECURSIVE Format(_, _)
Format(pieces, args) ==
    IF Len(pieces) = 1 THEN pieces[1]
    ELSE pieces[1] \o args[1] \o Format(Tail(pieces), Tail(args))

\* str(ModelFile.State.X)
StateStr(s) == "State." \o s

\* -------------------------------------------------------------- ModelBuilder
\* Sticky inputs of the ModelBuilder.  lftp_statuses and extract_statuses map a
\* name to its reported state (None when no status names it).
NewBuilder ==
    [remote_files |-> {},
     local_files |-> [n \in Names |-> None],
     active_files |-> [n \in Names |-> None],
     lftp_statuses |-> [n \in Names |-> None],
     extract_statuses |-> [n \in Names |-> None],
     downloaded_files |-> {}, extracted_files |-> {}]

\* local_size of a name: from the active scan while the name is in flight and
\* that scan saw it, else from the local scan.
BuilderLocal(b, n) ==
    IF /\ b.active_files[n] # None
       /\ \/ b.lftp_statuses[n] = "RUNNING"
          \/ b.extract_statuses[n] = "EXTRACTING"
    THEN b.active_files[n]
    ELSE b.local_files[n]

\* State of one name by the merging rules, in priority order.  A file is
\* found DOWNLOADED when its local copy has the whole remote size, or when it
\* is present locally and was recorded as downloaded; it is DELETED when it
\* was recorded as downloaded and is gone locally.
BuilderState(b, n) ==
    IF b.lftp_statuses[n] = "RUNNING" THEN "DOWNLOADING"
    ELSE IF b.lftp_statuses[n] = "QUEUED" THEN "QUEUED"
    ELSE IF b.extract_statuses[n] = "EXTRACTING" THEN "EXTRACTING"
    ELSE IF BuilderLocal(b, n) # None /\ n \in b.extracted_files THEN "EXTRACTED"
    ELSE IF BuilderLocal(b, n) # None /\ n \in b.downloaded_files THEN "DOWNLOADED"
    ELSE IF BuilderLocal(b, n) = "Full" /\ n \in b.remote_files THEN "DOWNLOADED"
    ELSE IF BuilderLocal(b, n) = None /\ n \in b.downloaded_files THEN "DELETED"
    ELSE "DEFAULT"

\* Names the built model holds: seen remotely, locally, or by the transfer engine.
BuilderNames(b) ==
    {n \in Names : \/ n \in b.remote_files
                   \/ b.local_files[n] # None
                   \/ b.lftp_statuses[n] # None}

\* ModelBuilder.build_model
BuildModel(b) ==
    [n \in Names |->
        IF n \in BuilderNames(b)
        THEN ModelFile(n, BuilderState(b, n),
                       IF n \in b.remote_files THEN "Full" ELSE None,
                       BuilderLocal(b, n))
        ELSE NoFile]

\* --------------------------------------------------------------- ModelDiff
\* ModelDiffUtil.diff_models: one record per name that was added, removed or
\* changed.  The emission order is not specified: see DiffOrders.
DiffRecord(old, new, n) ==
    IF old[n] = NoFile
    THEN [change |-> "ADDED", name |-> n, old_file |-> NoFile, new_file |-> new[n]]
    ELSE IF new[n] = NoFile
    THEN [change |-> "REMOVED", name |-> n, old_file |-> old[n], new_file |-> NoFile]
    ELSE [change |-> "UPDATED", name |-> n, old_file |-> old[n], new_file |-> new[n]]

DiffModels(old, new) == {DiffRecord(old, new, n) : n \in {m \in Names : old[m] # new[m]}}

\* Every sequence that lists each element of set S exactly once.
Orders(S) ==
    {q \in [1..Cardinality(S) -> S] : \A i, j \in 1..Cardinality(S) : q[i] = q[j] => i = j}

DiffOrders(old, new) == Orders(DiffModels(old, new))

\* ------------------------------------------------------------------ state
VARIABLES
    started,            \* Controller.__started
    exited,             \* exit() has run on a started controller
    exit_calls,         \* calls exit() made on the transfer engine and the workers, in order
    pc,                 \* position of the loop thread inside process()
    raised,             \* error the latest process() call ended with, or None
    command_queue,      \* Controller.__command_queue
    issued,             \* number of commands enqueued so far
    model,              \* Controller.__model (its files)
    listeners,          \* listeners registered with the Model
    model_lock,         \* Controller.__model_lock: "free", "loop" or "client"
    builder,            \* Controller.__model_builder (its sticky inputs)
    persist,            \* Controller.__persist
    active_downloading_file_names,
    active_extracting_file_names,
    new_model,          \* __update_model's new_model
    model_diff,         \* __update_model's model_diff, the records still to apply
    active_command_processes,   \* Controller.__active_command_processes
    pending,            \* long-lived workers holding an exception not yet propagated
    disp,               \* what the latest iteration of __process_commands did
    popped,             \* what __update_model popped in this tick
    due,                \* events the diff of this tick owes the listener, in order
    notified,           \* events the listener got in this tick, in order
    cpc,                \* position of the client thread
    cop,                \* the Controller call the client thread is in
    snapshot,           \* names in the list get_model_files_and_add_listener returned
    view,               \* the client's copy: its snapshot with the events replayed
    early,              \* events the listener got before the snapshot was returned
    replay_err          \* an event did not fit the client's copy

vars == <<started, exited, exit_calls, pc, raised, command_queue, issued, model, listeners,
          model_lock, builder, persist, active_downloading_file_names,
          active_extracting_file_names, new_model, model_diff,
          active_command_processes, pending, disp, popped, due, notified, cpc,
          cop, snapshot, view, early, replay_err>>

tick_log == <<popped, due, notified>>
loop_vars == <<pc, raised, new_model, model_diff, disp, tick_log>>
model_vars == <<model, listeners, model_lock>>
build_vars == <<builder, persist, active_downloading_file_names,
                active_extracting_file_names>>
client_vars == <<cpc, cop, snapshot, view, early, replay_err>>
worker_vars == <<active_command_processes, pending>>
queue_vars == <<command_queue, issued>>

\* The client's listener.
Listener == "L"

\* No command dispatched yet in this run of __process_commands.
NoDisp == [done |-> FALSE]
\* __update_model is not running, or what it popped is not on record.
NoPop == [popped |-> FALSE]
\* The client holds no snapshot.
NoView == [n \in Names |-> [name |-> "?"]]
\* Python's None where the other values are objects.
Nothing == [nothing |-> TRUE]

\* Long-lived workers, in the order __propagate_exceptions asks them.
LongLived == <<"lftp", "active_scan", "local_scan", "remote_scan", "mp_logger", "extract">>

\* Controller.__init__
Init ==
    /\ started = FALSE
    /\ exited = FALSE
    /\ exit_calls = <<>>
    /\ pc = "idle"
    /\ raised = None
    /\ command_queue = <<>>
    /\ issued = 0
    /\ model = EmptyModel
    /\ listeners = {}
    /\ model_lock = "free"
    /\ builder = NewBuilder
    /\ persist = [downloaded_file_names |-> {}, extracted_file_names |-> {}]
    /\ active_downloading_file_names = {}
    /\ active_extracting_file_names = {}
    /\ new_model = EmptyModel
    /\ model_diff = <<>>
    /\ active_command_processes = <<>>
    /\ pending = {}
    /\ disp = NoDisp
    /\ popped = NoPop
    /\ due = <<>>
    /\ notified = <<>>
    /\ cpc = "idle"
    /\ cop = None
    /\ snapshot = {}
    /\ view = NoView
    /\ early = <<>>
    /\ replay_err = FALSE

\* -------------------------------------------------------------- lifecycle
\* Controller.start
Start ==
    /\ ~started /\ ~exited /\ pc = "idle"
    /\ started' = TRUE
    /\ UNCHANGED <<exited, exit_calls, loop_vars, queue_vars, model_vars, build_vars,
                   worker_vars, client_vars>>

\* Faulty variant of ExitCalls: each worker is joined right after its terminate.
ExitCallsJoinEach ==
    <<"lftp.exit",
      "active_scan.terminate", "active_scan.join",
      "local_scan.terminate", "local_scan.join",
      "remote_scan.terminate", "remote_scan.join",
      "extract.terminate", "extract.join",
      "mp_logger.stop">>

\* The calls of exit() on a started controller, in program order.
ExitCalls ==
    <<"lftp.exit",
      "active_scan.terminate", "local_scan.terminate", "remote_scan.terminate",
      "extract.terminate",
      "active_scan.join", "local_scan.join", "remote_scan.join", "extract.join",
      "mp_logger.stop">>

\* Controller.exit on a started controller (called by the thread that drives
\* process(), so never inside a tick).
Exit ==
    /\ started /\ pc = "idle"
    /\ exit_calls' = exit_calls \o ExitCalls
    /\ started' = FALSE
    /\ exited' = TRUE
    /\ UNCHANGED <<loop_vars, queue_vars, model_vars, build_vars,
                   worker_vars, client_vars>>

\* Controller.exit on a controller that is not started: the body is skipped.
ExitNotStarted ==
    /\ ~started /\ pc = "idle"
    /\ UNCHANGED vars

\* Controller.queue_command, from any thread at any time.
QueueCommand(command) ==
    /\ issued < MaxCmds
    /\ command_queue' = Append(command_queue, command)
    /\ issued' = issued + 1
    /\ UNCHANGED <<started, exited, exit_calls, loop_vars, model_vars, build_vars,
                   worker_vars, client_vars>>

\* ---------------------------------------------------------------- process
\* Faulty variant of ProcessNotStarted: the started check is missing and the
\* tick goes ahead (no worker is running, so nothing is pending or reaped).
ProcessUnchecked ==
    /\ pc = "idle" /\ ~started
    /\ raised' = None
    /\ pc' = "commands"
    /\ UNCHANGED <<started, exited, exit_calls, tick_log,
                   new_model, model_diff, disp, queue_vars,
                   model_vars, build_vars, worker_vars, client_vars>>

\* Controller.process on a controller that is not started.
ProcessNotStarted ==
    /\ pc = "idle" /\ ~started
    /\ raised' = "ControllerError"
    /\ UNCHANGED <<started, exited, exit_calls, tick_log,
                   pc, new_model, model_diff, disp, queue_vars,
                   model_vars, build_vars, worker_vars, client_vars>>

\* Faulty variant of FirstPending: the transfer engine is not asked for its
\* pending error.
FirstPendingNoEngine ==
    IF \E i \in 2..Len(LongLived) : LongLived[i] \in pending
    THEN CHOOSE i \in 2..Len(LongLived) :
            /\ LongLived[i] \in pending
            /\ \A j \in 2..(i - 1) : LongLived[j] \notin pending
    ELSE 0

\* Controller.__propagate_exceptions: the first long-lived worker, in call
\* order, that holds an exception (0 when none does).
FirstPending ==
    IF \E i \in 1..Len(LongLived) : LongLived[i] \in pending
    THEN CHOOSE i \in 1..Len(LongLived) :
            /\ LongLived[i] \in pending
            /\ \A j \in 1..(i - 1) : LongLived[j] \notin pending
    ELSE 0

\* Controller.CommandProcessWrapper around a one-shot delete process.
CommandProcessWrapper(process, file_name, post_callback) ==
    [process |-> process, file_name |-> file_name, post_callback |-> post_callback,
     alive |-> TRUE, exception |-> FALSE, post_calls |-> 0]

\* Controller.__cleanup_commands: the first dead worker, in list order, whose
\* propagate_exception raises (0 when none does).
FirstFailing(procs) ==
    IF \E i \in 1..Len(procs) : ~procs[i].alive /\ procs[i].exception
    THEN CHOOSE i \in 1..Len(procs) :
            /\ ~procs[i].alive /\ procs[i].exception
            /\ \A j \in 1..(i - 1) : procs[j].alive \/ ~procs[j].exception
    ELSE 0

\* The loop body of __cleanup_commands run over procs[1..upto]: the post-callback
\* of every dead worker met is called, and the exception of the last is taken.
Reaped(procs, upto, raises) ==
    [i \in 1..Len(procs) |->
        IF i <= upto /\ ~procs[i].alive
        THEN [procs[i] EXCEPT !.post_calls = @ + 1,
                              !.exception = IF raises /\ i = upto THEN FALSE ELSE @]
        ELSE procs[i]]

StillActive(procs) == SelectSeq(procs, LAMBDA w : w.alive)

\* Controller.process on a started controller, up to the command loop:
\* __propagate_exceptions, then __cleanup_commands.
ProcessBegin ==
    /\ pc = "idle" /\ started
    /\ IF FirstPending # 0
       THEN /\ raised' = "WorkerError"
            /\ pending' = pending \ {LongLived[FirstPending]}
            /\ UNCHANGED <<pc, active_command_processes>>
       ELSE LET i == FirstFailing(active_command_processes) IN
            IF i # 0
            THEN \* the exception leaves the loop before the list is reassigned
                 /\ raised' = "DeleteWorkerError"
                 /\ active_command_processes' = Reaped(active_command_processes, i, TRUE)
                 /\ UNCHANGED <<pc, pending>>
            ELSE /\ raised' = None
                 /\ active_command_processes' =
                        StillActive(Reaped(active_command_processes,
                                           Len(active_command_processes), FALSE))
                 /\ pc' = "commands"
                 /\ UNCHANGED pending
    /\ UNCHANGED <<started, exited, exit_calls, tick_log,
                   new_model, model_diff, disp, queue_vars,
                   model_vars, build_vars, client_vars>>

\* ---------------------------------------------------------------- workers
\* A long-lived worker fails: its exception waits for the next
\* propagate_exception() (raise_pending_error() for the transfer engine).
WorkerFails(w) ==
    /\ started /\ w \notin pending
    /\ Cardinality(pending) < MaxPending
    /\ pending' = pending \cup {w}
    /\ UNCHANGED <<started, exited, exit_calls, loop_vars, queue_vars, model_vars,
                   build_vars, active_command_processes, client_vars>>

\* The one-shot delete process of the i-th wrapper ends, with or without an
\* exception for propagate_exception().
WorkerExits(i, exception) ==
    /\ i \in 1..Len(active_command_processes)
    /\ active_command_processes[i].alive
    /\ active_command_processes' =
            [active_command_processes EXCEPT ![i].alive = FALSE,
                                             ![i].exception = exception]
    /\ UNCHANGED <<started, exited, exit_calls, loop_vars, queue_vars, model_vars,
                   build_vars, pending, client_vars>>

\* ------------------------------------------------------ __process_commands
\* Faulty variant of GetFile: an unknown name yields a placeholder file
\* instead of a ModelError.
GetFileOrPlaceholder(m, filename) ==
    IF m[filename] = NoFile THEN ModelFile(filename, "DEFAULT", None, None)
    ELSE m[filename]

\* Model.get_file: NoFile stands for the ModelError of an unknown name.
GetFile(m, filename) == m[filename]

\* What one iteration of the command loop did: the messages given to
\* _notify_failure, whether the success notification at the end of the
\* iteration was reached, the calls made to the transfer engine and the
\* extractor, and the delete workers created and started.
Outcome(failures, success, calls, spawned) ==
    [failures |-> failures, success |-> success, calls |-> calls, spawned |-> spawned]

\* Faulty variant of Fail: the "continue" after _notify_failure is missing.
FailNoContinue(msg) == Outcome(<<msg>>, TRUE, <<>>, <<>>)

\* _notify_failure(command, msg); continue
Fail(msg) == Outcome(<<msg>>, FALSE, <<>>, <<>>)

\* A call to the transfer engine or the extractor; error is the LftpError
\* message the call raised, or None.
Call(op, file, error) ==
    [op |-> op, name |-> file.name, is_dir |-> file.is_dir, error |-> error]

\* Faulty variant of DoQueue: a file already queued or downloading is refused.
DoQueueStateChecked(command, file, lftp_error) ==
    IF file.remote_size = None
    THEN Fail(Format(<<"File '", "' does not exist remotely">>, <<command.filename>>))
    ELSE IF file.state \in {"QUEUED", "DOWNLOADING"}
    THEN Fail(Format(<<"File '", "' is already Queued or Downloading">>,
                     <<command.filename>>))
    ELSE IF lftp_error # None
    THEN Outcome(<<Format(<<"Lftp error: ">>, <<lftp_error>>)>>, FALSE,
                 <<Call("lftp.queue", file, lftp_error)>>, <<>>)
    ELSE Outcome(<<>>, TRUE, <<Call("lftp.queue", file, None)>>, <<>>)

\* Action.QUEUE
DoQueue(command, file, lftp_error) ==
    IF file.remote_size = None
    THEN Fail(Format(<<"File '", "' does not exist remotely">>, <<command.filename>>))
    ELSE IF lftp_error # None
    THEN Outcome(<<Format(<<"Lftp error: ">>, <<lftp_error>>)>>, FALSE,
                 <<Call("lftp.queue", file, lftp_error)>>, <<>>)
    ELSE Outcome(<<>>, TRUE, <<Call("lftp.queue", file, None)>>, <<>>)

\* Faulty variant of DoStop: the LftpError handler does not "continue".
DoStopNoContinue(command, file, lftp_error) ==
    IF file.state \notin {"DOWNLOADING", "QUEUED"}
    THEN Fail(Format(<<"File '", "' is not Queued or Downloading">>, <<command.filename>>))
    ELSE IF lftp_error # None
    THEN Outcome(<<Format(<<"Lftp error: ">>, <<lftp_error>>)>>, TRUE,
                 <<Call("lftp.kill", file, lftp_error)>>, <<>>)
    ELSE Outcome(<<>>, TRUE, <<Call("lftp.kill", file, None)>>, <<>>)

\* Faulty variant of DoStop: the state check is missing.
DoStopNoStateCheck(command, file, lftp_error) ==
    IF lftp_error # None
    THEN Outcome(<<Format(<<"Lftp error: ">>, <<lftp_error>>)>>, FALSE,
                 <<Call("lftp.kill", file, lftp_error)>>, <<>>)
    ELSE Outcome(<<>>, TRUE, <<Call("lftp.kill", file, None)>>, <<>>)

\* Action.STOP
DoStop(command, file, lftp_error) ==
    IF file.state \notin {"DOWNLOADING", "QUEUED"}
    THEN Fail(Format(<<"File '", "' is not Queued or Downloading">>, <<command.filename>>))
    ELSE IF lftp_error # None
    THEN Outcome(<<Format(<<"Lftp error: ">>, <<lftp_error>>)>>, FALSE,
                 <<Call("lftp.kill", file, lftp_error)>>, <<>>)
    ELSE Outcome(<<>>, TRUE, <<Call("lftp.kill", file, None)>>, <<>>)

\* Faulty variant of DoExtract: the local_size check is missing.
DoExtractNoLocalCheck(command, file) ==
    IF file.state \notin {"DEFAULT", "DOWNLOADED", "EXTRACTED"}
    THEN Fail(Format(<<"File '", "' in state ", " cannot be extracted">>,
                     <<command.filename, StateStr(file.state)>>))
    ELSE Outcome(<<>>, TRUE, <<Call("extract", file, None)>>, <<>>)

\* Action.EXTRACT
DoExtract(command, file) ==
    IF file.state \notin {"DEFAULT", "DOWNLOADED", "EXTRACTED"}
    THEN Fail(Format(<<"File '", "' in state ", " cannot be extracted">>,
                     <<command.filename, StateStr(file.state)>>))
    ELSE IF file.local_size = None
    THEN Fail(Format(<<"File '", "' does not exist locally">>, <<command.filename>>))
    ELSE Outcome(<<>>, TRUE, <<Call("extract", file, None)>>, <<>>)

\* Action.DELETE_LOCAL
DoDeleteLocal(command, file) ==
    IF file.state \notin {"DEFAULT", "DOWNLOADED", "EXTRACTED"}
    THEN Fail(Format(<<"Local file '", "' cannot be deleted in state ", "">>,
                     <<command.filename, StateStr(file.state)>>))
    ELSE IF file.local_size = None
    THEN Fail(Format(<<"File '", "' does not exist locally">>, <<command.filename>>))
    ELSE Outcome(<<>>, TRUE, <<>>,
                 <<CommandProcessWrapper("DeleteLocalProcess", file.name,
                                         "local_scan.force_scan")>>)

\* Faulty variant of DoDeleteRemote: the worker is given the local scanner's
\* force_scan, as in the DELETE_LOCAL branch it was copied from.
DoDeleteRemoteLocalRescan(command, file) ==
    IF file.state \notin {"DEFAULT", "DOWNLOADED", "EXTRACTED", "DELETED"}
    THEN Fail(Format(<<"Remote file '", "' cannot be deleted in state ", "">>,
                     <<command.filename, StateStr(file.state)>>))
    ELSE IF file.remote_size = None
    THEN Fail(Format(<<"File '", "' does not exist remotely">>, <<command.filename>>))
    ELSE Outcome(<<>>, TRUE, <<>>,
                 <<CommandProcessWrapper("DeleteRemoteProcess", file.name,
                                         "local_scan.force_scan")>>)

\* Action.DELETE_REMOTE
DoDeleteRemote(command, file) ==
    IF file.state \notin {"DEFAULT", "DOWNLOADED", "EXTRACTED", "DELETED"}
    THEN Fail(Format(<<"Remote file '", "' cannot be deleted in state ", "">>,
                     <<command.filename, StateStr(file.state)>>))
    ELSE IF file.remote_size = None
    THEN Fail(Format(<<"File '", "' does not exist remotely">>, <<command.filename>>))
    ELSE Outcome(<<>>, TRUE, <<>>,
                 <<CommandProcessWrapper("DeleteRemoteProcess", file.name,
                                         "remote_scan.force_scan")>>)

\* One iteration of the loop for a dequeued command; lftp_error is what the
\* transfer engine raises if it is called.
Execute(command, file, lftp_error) ==
    IF file = NoFile
    THEN Fail(Format(<<"File '", "' not found">>, <<command.filename>>))
    ELSE CASE command.action = "QUEUE" -> DoQueue(command, file, lftp_error)
           [] command.action = "STOP" -> DoStop(command, file, lftp_error)
           [] command.action = "EXTRACT" -> DoExtract(command, file)
           [] command.action = "DELETE_LOCAL" -> DoDeleteLocal(command, file)
           [] command.action = "DELETE_REMOTE" -> DoDeleteRemote(command, file)

\* The callback invocations of one iteration, in order: _notify_failure calls
\* on_failure on every callback; the end of the iteration calls on_success on each.
OnFailure(ncallbacks, msg) ==
    [i \in 1..ncallbacks |-> [callback |-> i, kind |-> "on_failure", msg |-> msg]]

OnSuccess(ncallbacks) ==
    [i \in 1..ncallbacks |-> [callback |-> i, kind |-> "on_success", msg |-> None]]

RECURSIVE NotifyFailures(_, _)
NotifyFailures(ncallbacks, failures) ==
    IF failures = <<>> THEN <<>>
    ELSE OnFailure(ncallbacks, Head(failures)) \o NotifyFailures(ncallbacks, Tail(failures))

Delivered(ncallbacks, outcome) ==
    NotifyFailures(ncallbacks, outcome.failures)
        \o (IF outcome.success THEN OnSuccess(ncallbacks) ELSE <<>>)

\* Faulty variant of DispatchCommand: the command enqueued last is taken first.
DispatchNewest ==
    /\ pc = "commands" /\ command_queue # <<>>
    /\ \E lftp_error \in LftpErrors \cup {None}, ncallbacks \in 0..MaxCallbacks :
        LET command == command_queue[Len(command_queue)]
            file == GetFile(model, command.filename)
            outcome == Execute(command, file, lftp_error)
        IN  /\ command_queue' = SubSeq(command_queue, 1, Len(command_queue) - 1)
            /\ active_command_processes' = active_command_processes \o outcome.spawned
            /\ disp' = [done |-> TRUE, command |-> command, ncallbacks |-> ncallbacks,
                        file |-> file, calls |-> outcome.calls,
                        spawned |-> outcome.spawned,
                        delivered |-> Delivered(ncallbacks, outcome)]
    /\ UNCHANGED <<started, exited, exit_calls, tick_log,
                   pc, raised, new_model, model_diff, issued,
                   model_vars, build_vars, pending, client_vars>>

\* One iteration of the while loop of __process_commands.
DispatchCommand ==
    /\ pc = "commands" /\ command_queue # <<>>
    /\ \E lftp_error \in LftpErrors \cup {None}, ncallbacks \in 0..MaxCallbacks :
        LET command == Head(command_queue)
            file == GetFile(model, command.filename)
            outcome == Execute(command, file, lftp_error)
        IN  /\ command_queue' = Tail(command_queue)
            /\ active_command_processes' = active_command_processes \o outcome.spawned
            /\ disp' = [done |-> TRUE, command |-> command, ncallbacks |-> ncallbacks,
                        file |-> file, calls |-> outcome.calls,
                        spawned |-> outcome.spawned,
                        delivered |-> Delivered(ncallbacks, outcome)]
    /\ UNCHANGED <<started, exited, exit_calls, tick_log,
                   pc, raised, new_model, model_diff, issued,
                   model_vars, build_vars, pending, client_vars>>

\* The command queue is empty: __process_commands returns.
CommandsDone ==
    /\ pc = "commands" /\ command_queue = <<>>
    /\ pc' = "update"
    /\ disp' = NoDisp
    /\ UNCHANGED <<started, exited, exit_calls, tick_log,
                   raised, new_model, model_diff, queue_vars,
                   model_vars, build_vars, worker_vars, client_vars>>

\* ---------------------------------------------------------- __update_model
\* Name -> reported value, None for a name that is not reported.
StatusMaps(N, V) ==
    {[n \in Names |-> IF n \in N THEN f[n] ELSE None] : f \in [N -> V \cup {None}]}

\* What the scanners, the transfer engine and the extractor may hand to one
\* tick, for the names in N.  Nothing is the None of a non-blocking pop with
\* no new result.  A remote scan result lists the names seen, a local or
\* active one the size of each name seen, among the sizes in V.
RemoteScanResults(N) == {Nothing} \cup {[files |-> S] : S \in SUBSET N}

LocalScanResults(N, V) ==
    {Nothing} \cup {[files |-> m] : m \in StatusMaps(N, V)}

\* Lftp.status(): the statuses, or an LftpError.
LftpResults(N) ==
    {[error |-> e] : e \in LftpErrors}
        \cup {[statuses |-> m] : m \in StatusMaps(N, {"QUEUED", "RUNNING"})}

\* ExtractProcess.pop_latest_statuses()
ExtractResults(N) ==
    {Nothing} \cup {[statuses |-> m] : m \in StatusMaps(N, {"EXTRACTING"})}

\* Faulty variant of LftpStatuses: after an LftpError the tick goes on with an
\* empty list of statuses.
LftpStatusesOrEmpty(lftp_result) ==
    IF "error" \in DOMAIN lftp_result THEN [statuses |-> [n \in Names |-> None]]
    ELSE lftp_result

\* lftp_statuses after the try/except around Lftp.status(): None (Nothing)
\* when the call raised LftpError.
LftpStatuses(lftp_result) ==
    IF "error" \in DOMAIN lftp_result THEN Nothing ELSE lftp_result

\* Faulty variant of ScanFiles: with no new scan result the builder input
\* named input falls back to its initial value.
ScanFilesOrReset(latest_scan, input) ==
    IF latest_scan # Nothing THEN latest_scan.files ELSE NewBuilder[input]

\* The builder input named input after "if latest_..._scan is not None:
\* set_..._files(latest_..._scan.files)".
ScanFiles(latest_scan, input) ==
    IF latest_scan # Nothing THEN latest_scan.files ELSE builder[input]

\* __update_model up to build_model(), given what its pops and status()
\* returned: update the lists of active names, feed the ModelBuilder and build
\* the new model.
Feed(latest_remote_scan, latest_local_scan, latest_active_scan, lftp_result, latest_extract_statuses, latest_extracted_results) ==
    /\ pc = "update"
    /\  LET lftp_statuses == LftpStatuses(lftp_result)
            extracted ==
                persist.extracted_file_names \cup latest_extracted_results
            b == [remote_files |-> ScanFiles(latest_remote_scan, "remote_files"),
                  local_files |-> ScanFiles(latest_local_scan, "local_files"),
                  active_files |-> ScanFiles(latest_active_scan, "active_files"),
                  lftp_statuses |->
                      IF lftp_statuses # Nothing THEN lftp_statuses.statuses
                      ELSE builder.lftp_statuses,
                  extract_statuses |->
                      IF latest_extract_statuses # Nothing
                      THEN latest_extract_statuses.statuses
                      ELSE builder.extract_statuses,
                  downloaded_files |-> builder.downloaded_files,
                  extracted_files |->
                      IF latest_extracted_results # {} THEN extracted
                      ELSE builder.extracted_files]
        IN  /\ active_downloading_file_names' =
                  IF lftp_statuses # Nothing
                  THEN {n \in Names : lftp_statuses.statuses[n] = "RUNNING"}
                  ELSE active_downloading_file_names
            /\ active_extracting_file_names' =
                  IF latest_extract_statuses # Nothing
                  THEN {n \in Names : latest_extract_statuses.statuses[n] = "EXTRACTING"}
                  ELSE active_extracting_file_names
            /\ persist' = [persist EXCEPT !.extracted_file_names = extracted]
            /\ builder' = b
            /\ new_model' = BuildModel(b)
    /\ pc' = "lock"
    /\ UNCHANGED <<started, exited, exit_calls, due, notified,
                   raised, model_diff, disp, queue_vars,
                   model_vars, worker_vars, client_vars>>

\* __update_model up to build_model(): pop the latest results and feed them.
Rebuild(RemoteScans, LocalScans, ActiveScans, Statuses, ExtractStatuses, Completed) ==
    /\ \E latest_remote_scan \in RemoteScans, latest_local_scan \in LocalScans,
          latest_active_scan \in ActiveScans, lftp_result \in Statuses,
          latest_extract_statuses \in ExtractStatuses,
          latest_extracted_results \in Completed :
        Feed(latest_remote_scan, latest_local_scan, latest_active_scan,
             lftp_result, latest_extract_statuses, latest_extracted_results)
    /\ UNCHANGED popped

\* Rebuild, with what was popped kept on record until the end of the tick.
RebuildLogged(RemoteScans, LocalScans, ActiveScans, Statuses, ExtractStatuses, Completed) ==
    \E latest_remote_scan \in RemoteScans, latest_local_scan \in LocalScans,
       latest_active_scan \in ActiveScans, lftp_result \in Statuses,
       latest_extract_statuses \in ExtractStatuses,
       latest_extracted_results \in Completed :
        /\ Feed(latest_remote_scan, latest_local_scan, latest_active_scan,
                lftp_result, latest_extract_statuses, latest_extracted_results)
        /\ popped' = [popped |-> TRUE,
                      remote_scan |-> latest_remote_scan,
                      local_scan |-> latest_local_scan,
                      active_scan |-> latest_active_scan,
                      lftp |-> lftp_result,
                      extract_statuses |-> latest_extract_statuses,
                      extracted_results |-> latest_extracted_results]

\* The listener call each diff record leads to: Model.add_file calls
\* file_added, remove_file calls file_removed, update_file calls file_updated.
EventsOf(diffs) ==
    [i \in 1..Len(diffs) |-> [change |-> diffs[i].change, name |-> diffs[i].name]]

\* Faulty variant of AcquireAndDiff: the models are diffed and the diff is
\* applied without the model lock.
DiffWithoutLock ==
    /\ pc = "lock"
    /\ model_diff' \in DiffOrders(model, new_model)
    /\ due' = IF Listener \in listeners THEN EventsOf(model_diff') ELSE <<>>
    /\ notified' = <<>>
    /\ pc' = "apply"
    /\ UNCHANGED <<started, exited, exit_calls, popped, raised, new_model, disp,
                   queue_vars, model_vars, build_vars, worker_vars, client_vars>>

\* __update_model: acquire the model lock and diff the models.
AcquireAndDiff ==
    /\ pc = "lock" /\ model_lock = "free"
    /\ model_lock' = "loop"
    /\ model_diff' \in DiffOrders(model, new_model)
    /\ due' = IF Listener \in listeners THEN EventsOf(model_diff') ELSE <<>>
    /\ notified' = <<>>
    /\ pc' = "apply"
    /\ UNCHANGED <<started, exited, exit_calls, popped, raised, new_model, disp,
                   queue_vars, model, listeners, build_vars, worker_vars,
                   client_vars>>

\* Faulty variant of ApplyToModel: the REMOVED branch is missing.
ApplyToModelNoRemove(m, diff) ==
    IF diff.change = "REMOVED" THEN m ELSE [m EXCEPT ![diff.name] = diff.new_file]

\* Model.add_file / remove_file / update_file for one diff record.
ApplyToModel(m, diff) == [m EXCEPT ![diff.name] = diff.new_file]

\* Faulty variant of JustDownloaded: the UPDATED case is missing.
JustDownloadedAddedOnly(diff) ==
    diff.change = "ADDED" /\ diff.new_file.state = "DOWNLOADED"

\* "Detect if a file was just Downloaded"
JustDownloaded(diff) ==
    \/ diff.change = "ADDED" /\ diff.new_file.state = "DOWNLOADED"
    \/ /\ diff.change = "UPDATED"
       /\ diff.new_file.state = "DOWNLOADED"
       /\ diff.old_file.state # "DOWNLOADED"

\* The event of one diff record does not fit the copy v it is replayed on:
\* an ADDED of a file v holds, a REMOVED or UPDATED of a file v does not hold.
Misfit(v, diff) ==
    IF diff.change = "ADDED" THEN v[diff.name] # NoFile
    ELSE v[diff.name] # diff.old_file

RECURSIVE Replay(_, _)
Replay(v, events) ==
    IF events = <<>> THEN v ELSE Replay(ApplyToModel(v, Head(events)), Tail(events))

RECURSIVE ReplayMisfit(_, _)
ReplayMisfit(v, events) ==
    IF events = <<>> THEN FALSE
    ELSE \/ Misfit(v, Head(events))
         \/ ReplayMisfit(ApplyToModel(v, Head(events)), Tail(events))

\* __update_model: one iteration of "for diff in model_diff"; the Model notifies
\* its listeners inside add_file / remove_file / update_file.
ApplyDiff ==
    /\ pc = "apply" /\ model_diff # <<>>
    /\ LET diff == Head(model_diff) IN
        /\ model' = ApplyToModel(model, diff)
        /\ model_diff' = Tail(model_diff)
        /\ IF JustDownloaded(diff)
           THEN /\ persist' = [persist EXCEPT !.downloaded_file_names = @ \cup {diff.name}]
                /\ builder' = [builder EXCEPT !.downloaded_files =
                                  persist.downloaded_file_names \cup {diff.name}]
           ELSE UNCHANGED <<persist, builder>>
        /\ IF Listener \in listeners /\ view # NoView
           THEN /\ view' = ApplyToModel(view, diff)
                /\ replay_err' = (replay_err \/ Misfit(view, diff))
                /\ early' = early
           ELSE IF Listener \in listeners /\ cop = "sub" /\ cpc = "listening"
           THEN /\ early' = Append(early, diff)
                /\ UNCHANGED <<view, replay_err>>
           ELSE UNCHANGED <<view, replay_err, early>>
        /\ notified' = IF Listener \in listeners
                     THEN notified \o EventsOf(<<diff>>) ELSE notified
    /\ UNCHANGED <<started, exited, exit_calls, popped, due,
                   pc, raised, new_model, disp, queue_vars,
                   listeners, model_lock, active_downloading_file_names,
                   active_extracting_file_names, worker_vars, cpc, cop, snapshot>>

\* Faulty variant of RemoveExtracted: the branches are swapped, the names that
\* are not in the model are pruned and the DELETED ones are kept.
RemoveExtractedAbsent(m, extracted_file_names) ==
    {n \in extracted_file_names : m[n] = NoFile}

\* Names to prune from the extracted list: in the model in state DELETED.
RemoveExtracted(m, extracted_file_names) ==
    {n \in extracted_file_names : m[n] # NoFile /\ m[n].state = "DELETED"}

\* __update_model after the loop: prune the extracted list, release the lock.
PruneAndRelease ==
    /\ pc = "apply" /\ model_diff = <<>>
    /\ LET remove == RemoveExtracted(model, persist.extracted_file_names) IN
        IF remove # {}
        THEN /\ persist' = [persist EXCEPT !.extracted_file_names = @ \ remove]
             /\ builder' = [builder EXCEPT !.extracted_files =
                               persist.extracted_file_names \ remove]
        ELSE UNCHANGED <<persist, builder>>
    /\ model_lock' = "free"
    /\ popped' = NoPop
    /\ due' = <<>>
    /\ notified' = <<>>
    /\ pc' = "idle"
    /\ UNCHANGED <<started, exited, exit_calls,
                   raised, new_model, model_diff, disp, queue_vars,
                   model, listeners, active_downloading_file_names,
                   active_extracting_file_names, worker_vars, client_vars>>

\* ----------------------------------------------------------- client calls
\* The calls a client thread makes on the model: get_model_files ("get"),
\* add_model_listener ("add"), remove_model_listener ("remove") and
\* get_model_files_and_add_listener ("sub").  The client registers its
\* listener only when it is not registered, and removes it only when it is.
ClientOps == {"get", "add", "remove", "sub"}

\* Faulty variant of ClientAcquire: the call goes on without taking the lock.
ClientAcquireNoLock(op) ==
    /\ cpc = "idle"
    /\ op \in {"add", "sub"} => Listener \notin listeners
    /\ op = "remove" => Listener \in listeners
    /\ cop' = op
    /\ cpc' = "locked"
    /\ UNCHANGED <<started, exited, exit_calls, loop_vars, queue_vars, model_vars,
                   build_vars, worker_vars, snapshot, view, early, replay_err>>

\* self.__model_lock.acquire() at the top of each of the four calls.
ClientAcquire(op) ==
    /\ cpc = "idle" /\ model_lock = "free"
    /\ op \in {"add", "sub"} => Listener \notin listeners
    /\ op = "remove" => Listener \in listeners
    /\ model_lock' = "client"
    /\ cop' = op
    /\ cpc' = "locked"
    /\ UNCHANGED <<started, exited, exit_calls, loop_vars, queue_vars, model, listeners,
                   build_vars, worker_vars, snapshot, view, early, replay_err>>

\* self.__model.add_listener(listener)
ClientAddListener ==
    /\ cpc = "locked" /\ cop \in {"add", "sub"}
    /\ listeners' = listeners \cup {Listener}
    /\ cpc' = IF cop = "sub" THEN "listening" ELSE "release"
    /\ UNCHANGED <<started, exited, exit_calls, loop_vars, queue_vars, model, model_lock,
                   build_vars, worker_vars, cop, snapshot, view, early, replay_err>>

\* self.__model.remove_listener(listener)
ClientRemoveListener ==
    /\ cpc = "locked" /\ cop = "remove"
    /\ listeners' = listeners \ {Listener}
    /\ snapshot' = {}
    /\ view' = NoView
    /\ replay_err' = FALSE
    /\ cpc' = "release"
    /\ UNCHANGED <<started, exited, exit_calls, loop_vars, queue_vars, model, model_lock,
                   build_vars, worker_vars, cop, early>>

\* model_files = self.__get_model_files(): a deep copy of every file.  The
\* subscribing client replays on it the events its listener already got.
ClientGetModelFiles ==
    /\ \/ cpc = "locked" /\ cop = "get"
       \/ cpc = "listening"
    /\ IF cop = "sub"
       THEN /\ snapshot' = GetFileNames(model)
            /\ view' = Replay(model, early)
            /\ replay_err' = ReplayMisfit(model, early)
            /\ early' = <<>>
       ELSE UNCHANGED <<snapshot, view, replay_err, early>>
    /\ cpc' = "release"
    /\ UNCHANGED <<started, exited, exit_calls, loop_vars, queue_vars, model_vars,
                   build_vars, worker_vars, cop>>

\* self.__model_lock.release(); the call returns.
ClientRelease ==
    /\ cpc = "release"
    /\ model_lock' = "free"
    /\ cpc' = "idle"
    /\ cop' = None
    /\ UNCHANGED <<started, exited, exit_calls, loop_vars, queue_vars, model, listeners,
                   build_vars, worker_vars, snapshot, view, early, replay_err>>

\* ------------------------------------------- errors in a critical section
\* remove_model_listener(listener) for a listener that is not registered:
\* self.__model_lock.acquire().
ClientAcquireUnregistered ==
    /\ cpc = "idle" /\ model_lock = "free"
    /\ Listener \notin listeners
    /\ model_lock' = "client"
    /\ cop' = "remove"
    /\ cpc' = "locked"
    /\ UNCHANGED <<started, exited, exit_calls, loop_vars, queue_vars, model, listeners,
                   build_vars, worker_vars, snapshot, view, early, replay_err>>

\* self.__model.remove_listener(listener) raises for a listener that is not
\* registered: the error leaves remove_model_listener from the line before
\* self.__model_lock.release().
ClientRemoveRaises ==
    /\ cpc = "locked" /\ cop = "remove"
    /\ Listener \notin listeners
    /\ cpc' = "idle"
    /\ cop' = None
    /\ UNCHANGED <<started, exited, exit_calls, loop_vars, queue_vars, model_vars,
                   build_vars, worker_vars, snapshot, view, early, replay_err>>

\* One iteration of "for diff in model_diff" in which the listener's callback
\* raises: the Model has changed its file, and the error leaves
\* __update_model and process() from inside the loop.
ListenerRaises ==
    /\ pc = "apply" /\ model_diff # <<>>
    /\ Listener \in listeners
    /\ model' = ApplyToModel(model, Head(model_diff))
    /\ raised' = "ListenerError"
    /\ pc' = "idle"
    /\ model_diff' = <<>>
    /\ popped' = NoPop
    /\ due' = <<>>
    /\ notified' = <<>>
    /\ UNCHANGED <<started, exited, exit_calls, new_model, disp, queue_vars,
                   listeners, model_lock, build_vars, worker_vars, client_vars>>

\* ---------------------------------------------------------- specifications
\* The reconciliation loop with a client issuing commands on the names in
\* CmdNames; every observation stream but the active scan is live, and the
\* local scanner reports whole files.
Next ==
    \/ Start
    \/ Exit
    \/ \E a \in Actions, f \in CmdNames : QueueCommand(Command(a, f))
    \/ ProcessNotStarted
    \/ ProcessBegin
    \/ DispatchCommand
    \/ CommandsDone
    \/ Rebuild(RemoteScanResults(CmdNames), LocalScanResults(CmdNames, {"Full"}),
               {Nothing},
               LftpResults(CmdNames), ExtractResults(CmdNames), SUBSET CmdNames)
    \/ AcquireAndDiff
    \/ ApplyDiff
    \/ PruneAndRelease

Spec == Init /\ [][Next]_vars

\* The reconciliation loop driven by the remote and local scanners over all
\* names, with a client thread reading and subscribing to the model.
NextSub ==
    \/ Start
    \/ ProcessNotStarted
    \/ ProcessBegin
    \/ CommandsDone
    \/ Rebuild(RemoteScanResults(Names), LocalScanResults(Names, {"Part", "Full"}),
               {Nothing},
               {[statuses |-> [n \in Names |-> None]]}, {Nothing}, {{}})
    \/ AcquireAndDiff
    \/ ApplyDiff
    \/ PruneAndRelease
    \/ \E op \in ClientOps : ClientAcquire(op)
    \/ ClientAddListener
    \/ ClientRemoveListener
    \/ ClientGetModelFiles
    \/ ClientRelease

SpecSub == Init /\ [][NextSub]_vars

\* The supervisor: the controller's lifecycle, delete commands and their
\* one-shot workers, and long-lived workers that may fail at any time.
NextWork ==
    \/ Start
    \/ Exit
    \/ ExitNotStarted
    \/ \E a \in {"DELETE_LOCAL", "DELETE_REMOTE"}, f \in CmdNames :
            QueueCommand(Command(a, f))
    \/ ProcessNotStarted
    \/ ProcessBegin
    \/ DispatchCommand
    \/ CommandsDone
    \/ Rebuild({Nothing, [files |-> CmdNames]},
               {Nothing, [files |-> [n \in Names |-> IF n \in CmdNames THEN "Full" ELSE None]]},
               {Nothing}, {[statuses |-> [n \in Names |-> None]]}, {Nothing}, {{}})
    \/ AcquireAndDiff
    \/ ApplyDiff
    \/ PruneAndRelease
    \/ \E w \in {LongLived[i] : i \in 1..Len(LongLived)} : WorkerFails(w)
    \/ \E i \in 1..MaxCmds, exception \in BOOLEAN : WorkerExits(i, exception)

SpecWork == Init /\ [][NextWork]_vars

\* Extractions the extractor may report as completed: of files recorded as
\* downloaded that the latest local scan fed to the builder still saw.
Extractable ==
    {n \in CmdNames : /\ n \in persist.downloaded_file_names
                      /\ builder.local_files[n] # None}

\* Download, extraction, deletion and re-download of the names in CmdNames:
\* the remote and local scanners report freely, the transfer engine is idle
\* and the extractor completes extractions of downloaded files.
NextPrune ==
    \/ Start
    \/ ProcessBegin
    \/ CommandsDone
    \/ RebuildLogged(RemoteScanResults(CmdNames), LocalScanResults(CmdNames, {"Part", "Full"}),
                     {Nothing}, {[statuses |-> [n \in Names |-> None]]}, {Nothing},
                     SUBSET Extractable)
    \/ AcquireAndDiff
    \/ ApplyDiff
    \/ PruneAndRelease

SpecPrune == Init /\ [][NextPrune]_vars

\* The model lock with calls that end by an error raised between acquire
\* and release: a client removes a listener that is not registered, and a
\* listener's callback raises while the loop applies a diff.
NextLock ==
    \/ Start
    \/ ProcessBegin
    \/ CommandsDone
    \/ Rebuild(RemoteScanResults(CmdNames), LocalScanResults(CmdNames, {"Full"}),
               {Nothing},
               {[statuses |-> [n \in Names |-> None]]}, {Nothing}, {{}})
    \/ AcquireAndDiff
    \/ ApplyDiff
    \/ ListenerRaises
    \/ PruneAndRelease
    \/ \E op \in ClientOps : ClientAcquire(op)
    \/ ClientAcquireUnregistered
    \/ ClientAddListener
    \/ ClientRemoveListener
    \/ ClientRemoveRaises
    \/ ClientGetModelFiles
    \/ ClientRelease

SpecLock == Init /\ [][NextLock]_vars

\* The rebuild fed by every stream, for the names in CmdNames: the three
\* scanners, the transfer engine, whose status() may fail, and the extractor.
NextFeed ==
    \/ Start
    \/ ProcessBegin
    \/ CommandsDone
    \/ RebuildLogged(RemoteScanResults(CmdNames), LocalScanResults(CmdNames, {"Full"}),
                     LocalScanResults(CmdNames, {"Part"}),
                     LftpResults(CmdNames), ExtractResults(CmdNames), SUBSET CmdNames)
    \/ AcquireAndDiff
    \/ ApplyDiff
    \/ PruneAndRelease

SpecFeed == Init /\ [][NextFeed]_vars

\* ------------------------------------------------------------- properties
\* The command dispatched by the latest loop iteration and what it met.
DispFile == model[disp.command.filename]
AllFailures(msg) == disp.delivered = OnFailure(disp.ncallbacks, msg)
LftpRaised == \E i \in DOMAIN disp.calls : disp.calls[i].error # None

\* A step of the loop thread that dequeues a command.
Dequeues == Len(command_queue') < Len(command_queue)

\* C1: atomic snapshot+subscribe.  Whenever the loop is not inside its
\* critical section, the snapshot returned to a subscribed client with the
\* listener's events replayed on it is exactly the Model's file set, and no
\* event was lost, duplicated or delivered before the snapshot (an ADDED for a
\* name the copy holds, or a REMOVED/UPDATED for one it does not, is a misfit).
C1_AtomicSubscribe ==
    (view # NoView /\ model_lock # "loop") =>
        /\ view = model
        /\ ~replay_err
        /\ early = <<>>

\* The snapshot lacked "a" and held "b"; the listener then received the ADDED
\* event of "a", and the lock is free again.
C1_Witness ==
    /\ model_lock = "free" /\ cpc = "idle" /\ Listener \in listeners
    /\ view # NoView
    /\ snapshot = {"b"}
    /\ view["a"] # NoFile /\ view["b"] = NoFile

\* Every attached callback got exactly one notification.
OneTerminalCallback ==
    /\ Len(disp.delivered) = disp.ncallbacks
    /\ \A i \in 1..disp.ncallbacks :
          Cardinality({j \in DOMAIN disp.delivered : disp.delivered[j].callback = i}) = 1
    /\ \A j \in DOMAIN disp.delivered :
          disp.delivered[j].kind \in {"on_success", "on_failure"}

\* C2: every command dequeued by process() delivers, in the loop iteration
\* (hence the tick) that dequeued it, exactly one of on_success / on_failure to
\* each attached callback: exactly once, never both.
C2_OneTerminalCallback ==
    /\ [](disp.done => pc = "commands" /\ OneTerminalCallback)
    /\ [][Dequeues => /\ disp'.done
                      /\ disp'.command = Head(command_queue)
                      /\ pc = "commands" /\ pc' = "commands"]_vars

\* A command with two callbacks failed and both were told so, once each.
C2_Witness ==
    /\ disp.done /\ disp.ncallbacks = 2
    /\ disp.delivered[1].kind = "on_failure" /\ disp.delivered[2].kind = "on_failure"

\* C3: an LftpError of queue() or kill() does not leave process(): every
\* callback of the command gets on_failure and none gets on_success, the loop
\* goes on with the commands still queued, and the command loop is left only
\* with an empty queue and for the model rebuild.
C3_CommandsNeverRaise ==
    /\ []((disp.done /\ LftpRaised) =>
            /\ pc = "commands" /\ raised = None
            /\ Len(disp.delivered) = disp.ncallbacks
            /\ \A j \in DOMAIN disp.delivered : disp.delivered[j].kind = "on_failure")
    /\ [][(pc = "commands" /\ pc' # "commands") =>
            (command_queue = <<>> /\ pc' = "update" /\ raised' = None)]_vars
    /\ [][(pc = "update" /\ pc' # "update") => pc' = "lock"]_vars

\* kill() raised for a command with two callbacks while another command waits.
C3_Witness ==
    /\ disp.done /\ LftpRaised /\ disp.command.action = "STOP"
    /\ disp.ncallbacks = 2 /\ command_queue # <<>>

\* C4 (as claimed): the on_failure message of a command whose queue() or
\* kill() raised an LftpError carries the engine's message, so that it differs
\* from the message the same command gets for any other engine message.
C4_EngineMessageCarried ==
    (disp.done /\ LftpRaised) =>
        \A j \in DOMAIN disp.delivered :
            \A e \in LftpErrors \ {disp.calls[1].error} :
                <<disp.delivered[j].msg>> # Execute(disp.command, disp.file, e).failures

\* C5: a command whose file is not in the Model when it is dispatched fails
\* with "File '<name>' not found" on every callback, whatever its action; the
\* transfer engine and the extractor are not called and no delete worker is made.
C5_NotFound ==
    (disp.done /\ DispFile = NoFile) =>
        /\ AllFailures("File '" \o disp.command.filename \o "' not found")
        /\ disp.calls = <<>>
        /\ disp.spawned = <<>>

\* A command for "a" is dispatched after "a", once DOWNLOADED, left the Model.
C5_Witness ==
    /\ disp.done /\ DispFile = NoFile /\ disp.ncallbacks = 2
    /\ disp.command.filename \in persist.downloaded_file_names

\* C6: kill(name) is called only by a STOP command whose file is in the Model
\* in state DOWNLOADING or QUEUED; a STOP for a file in another state fails with
\* "File '<name>' is not Queued or Downloading" and kill is not called.
C6_StopPrecondition ==
    disp.done =>
        /\ \A i \in DOMAIN disp.calls :
              disp.calls[i].op = "lftp.kill" =>
                  /\ disp.command.action = "STOP"
                  /\ DispFile # NoFile
                  /\ DispFile.state \in {"DOWNLOADING", "QUEUED"}
                  /\ disp.calls[i].name = disp.command.filename
        /\ (/\ disp.command.action = "STOP"
            /\ DispFile # NoFile
            /\ DispFile.state \in States \ {"DOWNLOADING", "QUEUED"}) =>
              /\ AllFailures("File '" \o disp.command.filename
                                \o "' is not Queued or Downloading")
              /\ disp.calls = <<>>

\* STOP of a DOWNLOADED file, with a callback.
C6_Witness ==
    /\ disp.done /\ disp.command.action = "STOP" /\ disp.ncallbacks = 1
    /\ DispFile # NoFile /\ DispFile.state = "DOWNLOADED"

\* The dispatch called the transfer engine's queue(name, is_dir) for the file.
QueueCalled ==
    /\ Len(disp.calls) = 1
    /\ disp.calls[1].op = "lftp.queue"
    /\ disp.calls[1].name = disp.command.filename
    /\ disp.calls[1].is_dir = DispFile.is_dir

\* C7: queue(name, is_dir) is called exactly when a QUEUE command's file is in
\* the Model with remote_size present, whatever the file's state; with
\* remote_size absent the command fails and queue is not called.
C7_QueuePrecondition ==
    disp.done =>
        /\ \A i \in DOMAIN disp.calls :
              disp.calls[i].op = "lftp.queue" => disp.command.action = "QUEUE"
        /\ disp.command.action = "QUEUE" =>
              IF DispFile # NoFile /\ DispFile.remote_size # None
              THEN QueueCalled
              ELSE /\ disp.calls = <<>>
                   /\ Len(disp.delivered) = disp.ncallbacks
                   /\ \A j \in DOMAIN disp.delivered :
                         disp.delivered[j].kind = "on_failure"

\* QUEUE of a file that is already DOWNLOADING reaches the transfer engine.
C7_Witness ==
    /\ disp.done /\ disp.command.action = "QUEUE"
    /\ DispFile # NoFile /\ DispFile.state = "DOWNLOADING"
    /\ QueueCalled

\* The file may be extracted or deleted locally.
LocalPrecondition ==
    /\ DispFile # NoFile
    /\ DispFile.state \in {"DEFAULT", "DOWNLOADED", "EXTRACTED"}
    /\ DispFile.local_size # None

\* C8: a file is submitted to the extractor only by an EXTRACT command whose
\* file has state DEFAULT, DOWNLOADED or EXTRACTED and local_size present;
\* otherwise the command fails and nothing is submitted.
C8_ExtractPrecondition ==
    disp.done =>
        /\ \A i \in DOMAIN disp.calls :
              disp.calls[i].op = "extract" =>
                  /\ disp.command.action = "EXTRACT"
                  /\ LocalPrecondition
                  /\ disp.calls[i].name = disp.command.filename
        /\ (disp.command.action = "EXTRACT" /\ ~LocalPrecondition) =>
              /\ disp.calls = <<>>
              /\ Len(disp.delivered) = disp.ncallbacks
              /\ \A j \in DOMAIN disp.delivered : disp.delivered[j].kind = "on_failure"

\* EXTRACT of a DEFAULT file that is not present locally is refused.
C8_Witness ==
    /\ disp.done /\ disp.command.action = "EXTRACT" /\ disp.ncallbacks = 1
    /\ DispFile # NoFile /\ DispFile.state = "DEFAULT" /\ DispFile.local_size = None
    /\ disp.calls = <<>>

\* The file may be deleted remotely.
RemotePrecondition ==
    /\ DispFile # NoFile
    /\ DispFile.state \in {"DEFAULT", "DOWNLOADED", "EXTRACTED", "DELETED"}
    /\ DispFile.remote_size # None

\* The delete worker a command of the given kind must create, and no other.
SpawnedFor(ok, process, post_callback) ==
    IF ok
    THEN disp.spawned = <<CommandProcessWrapper(process, disp.command.filename,
                                                post_callback)>>
    ELSE disp.spawned = <<>>

\* C9: a local-delete worker is created (and started) only by a DELETE_LOCAL
\* command whose file has state DEFAULT/DOWNLOADED/EXTRACTED and local_size
\* present, with the local scanner's force_scan as post-callback; a
\* remote-delete worker only by a DELETE_REMOTE command whose file has state
\* DEFAULT/DOWNLOADED/EXTRACTED/DELETED and remote_size present, with the
\* remote scanner's force_scan.  A successful delete command appends exactly
\* one entry to the active-command-process list, any other command none.
C9_DeleteCommands ==
    /\ [](disp.done =>
            CASE disp.command.action = "DELETE_LOCAL" ->
                    SpawnedFor(LocalPrecondition, "DeleteLocalProcess",
                               "local_scan.force_scan")
              [] disp.command.action = "DELETE_REMOTE" ->
                    SpawnedFor(RemotePrecondition, "DeleteRemoteProcess",
                               "remote_scan.force_scan")
              [] OTHER -> disp.spawned = <<>>)
    /\ [][Dequeues =>
            active_command_processes' = active_command_processes \o disp'.spawned]_vars

\* DELETE_REMOTE of a DELETED file starts a remote-delete worker.
C9_Witness ==
    /\ disp.done /\ disp.command.action = "DELETE_REMOTE"
    /\ DispFile # NoFile /\ DispFile.state = "DELETED"
    /\ Len(disp.spawned) = 1
    /\ Len(active_command_processes) = 2

\* C10: process() on a controller that is not started (before start() or
\* after exit()) raises ControllerError and changes nothing: the loop thread
\* stays outside the tick, no command is dequeued, no callback or listener
\* event is delivered, and the Model, the persist sets and the
\* active-command-process list are unchanged.
C10_NotStarted ==
    /\ [](~started => pc = "idle" /\ model_lock # "loop" /\ ~disp.done)
    /\ [][(~started /\ ~started') =>
            /\ UNCHANGED <<pc, model, listeners, persist, builder,
                           active_command_processes, pending, disp, new_model,
                           model_diff, snapshot, view, early, replay_err>>
            /\ \/ command_queue' = command_queue
               \/ /\ command_queue # command_queue'
                  /\ SubSeq(command_queue', 1, Len(command_queue)) = command_queue
            /\ raised' \in {raised, "ControllerError"}]_vars
    /\ [][(~started /\ raised' # raised) => raised' = "ControllerError"]_vars

\* process() was called after exit() with a command waiting and files in the Model.
C10_Witness ==
    /\ exited /\ ~started /\ raised = "ControllerError"
    /\ command_queue # <<>> /\ model # EmptyModel
    /\ active_command_processes # <<>>

\* No wrapper of the active-command-process list is reaped in the step: the list
\* keeps its length, no post-callback fires and no exception is taken.
NothingReaped ==
    /\ Len(active_command_processes') = Len(active_command_processes)
    /\ \A i \in 1..Len(active_command_processes) :
        /\ active_command_processes'[i].post_calls = active_command_processes[i].post_calls
        /\ active_command_processes[i].exception => active_command_processes'[i].exception

\* No command leaves the queue in the step.
NothingDequeued ==
    /\ Len(command_queue') >= Len(command_queue)
    /\ SubSeq(command_queue', 1, Len(command_queue)) = command_queue

\* C11: while a long-lived worker (transfer engine, active, local or remote
\* scanner, log relay, extractor) holds an exception, the next process() call
\* on the started controller re-raises it before anything else: the loop
\* thread does not enter the tick, no one-shot worker is reaped, no command
\* is dequeued, no scan result is consumed, the Model and the persist sets
\* are unchanged and no listener event is delivered.  The call takes exactly
\* one pending exception and ends with it.
C11_PendingRaisedFirst ==
    /\ [][(pc = "idle" /\ started /\ pending # {}) =>
            /\ pc' = "idle"
            /\ NothingReaped
            /\ NothingDequeued
            /\ UNCHANGED <<model, listeners, persist, builder, new_model, model_diff,
                           popped, due, notified, disp, view, early,
                           active_downloading_file_names,
                           active_extracting_file_names>>
            /\ raised' # raised => raised' = "WorkerError"]_vars
    /\ [][(pending' # pending /\ pending' \subseteq pending) =>
            /\ pc = "idle" /\ pc' = "idle" /\ started
            /\ raised' = "WorkerError"
            /\ Cardinality(pending') = Cardinality(pending) - 1]_vars
    /\ [](pc # "idle" => raised = None)

\* process() ended with the transfer engine's pending error while a command
\* was waiting, a dead delete worker was in the list and the Model held a file.
C11_Witness ==
    /\ started /\ pc = "idle" /\ raised = "WorkerError"
    /\ "lftp" \notin pending /\ "extract" \in pending
    /\ command_queue # <<>> /\ model # EmptyModel
    /\ \E i \in 1..Len(active_command_processes) :
        /\ ~active_command_processes[i].alive
        /\ active_command_processes[i].post_calls = 0

\* The step is __cleanup_commands running in a tick: the tick goes on to the
\* command loop, or a post-callback fires before the exception leaves.
CleanupRuns ==
    /\ pc = "idle" /\ started /\ pending = {}
    /\ \/ pc' = "commands"
       \/ /\ Len(active_command_processes') = Len(active_command_processes)
          /\ \E i \in 1..Len(active_command_processes) :
                active_command_processes'[i].post_calls
                    > active_command_processes[i].post_calls

\* C12: in every tick that reaches __cleanup_commands, the workers of the
\* active-command-process list that are not alive are removed from it and the
\* ones still alive stay, in order; the post-callback of a removed worker has
\* fired, and the exception of a dead worker is propagated out of process().
\* This holds also for the tick in which a dead worker carries an exception.
C12_DeadWorkersReaped ==
    [][CleanupRuns =>
        /\ active_command_processes' = StillActive(active_command_processes)
        /\ (\E i \in 1..Len(active_command_processes) :
                /\ ~active_command_processes[i].alive
                /\ active_command_processes[i].exception)
            <=> raised' = "DeleteWorkerError"]_vars

\* Names the model m holds in state st.
InState(m, st) == {n \in Names : m[n] # NoFile /\ m[n].state = st}

\* C13: whenever __update_model has released the model lock, no name that the
\* Model holds in state DELETED is in persist.extracted_file_names, also when
\* the extractor reported the name as completed in that tick; the step that
\* prunes leaves persist.downloaded_file_names as it was.
C13_DeletedNotExtracted ==
    /\ [](pc = "idle" =>
            InState(model, "DELETED") \cap persist.extracted_file_names = {})
    /\ [][(pc = "apply" /\ pc' = "idle") =>
            /\ InState(model', "DELETED") \cap persist'.extracted_file_names = {}
            /\ persist'.downloaded_file_names = persist.downloaded_file_names
            /\ persist.extracted_file_names \ persist'.extracted_file_names
                    \subseteq InState(model, "DELETED")]_vars

\* A tick is about to release the lock with "a" DELETED in the Model, recorded
\* as downloaded and in the extracted list.
C13_Witness ==
    /\ pc = "apply" /\ model_diff = <<>>
    /\ "a" \in InState(model, "DELETED")
    /\ "a" \in persist.extracted_file_names
    /\ "a" \in persist.downloaded_file_names

\* C14: once a name of persist.extracted_file_names has been observed to be
\* gone locally (the local scan fed to the builder does not list it), the name
\* has left persist.extracted_file_names by the end of that tick, whatever the
\* remote scans say; so a name that was gone locally and is seen again is
\* published EXTRACTED only if the extractor reports a new completed
\* extraction of it.
C14_GoneLeavesExtracted ==
    /\ [](pc = "idle" =>
            \A n \in Names : builder.local_files[n] = None =>
                n \notin persist.extracted_file_names)
    /\ [][(pc = "update" /\ pc' = "lock") =>
            \A n \in Names :
                (builder.local_files[n] = None /\ n \in InState(new_model', "EXTRACTED"))
                    => n \in popped'.extracted_results]_vars

\* Lftp.status() raised LftpError in the tick under way.
StatusFailed == popped # NoPop /\ "error" \in DOMAIN popped.lftp

\* What the tick popped from the scanners and the extractor is in the builder.
PoppedAreFed ==
    /\ popped.remote_scan # Nothing => builder.remote_files = popped.remote_scan.files
    /\ popped.local_scan # Nothing => builder.local_files = popped.local_scan.files
    /\ popped.active_scan # Nothing => builder.active_files = popped.active_scan.files
    /\ popped.extract_statuses # Nothing =>
        /\ builder.extract_statuses = popped.extract_statuses.statuses
        /\ active_extracting_file_names =
                {n \in Names : popped.extract_statuses.statuses[n] = "EXTRACTING"}
    /\ popped.extracted_results # {} =>
        /\ popped.extracted_results \subseteq builder.extracted_files
        /\ builder.extracted_files = persist.extracted_file_names

\* C15: a tick in which Lftp.status() raises LftpError goes on: process()
\* does not raise, the scan and extract results popped in the tick are fed to
\* the ModelBuilder, the model built from them is published, and the
\* builder's lftp statuses and the list of active downloading names keep the
\* values of the last successful status() call.
C15_StatusErrorTolerated ==
    /\ [][(pc = "update" /\ pc' = "lock" /\ StatusFailed') =>
            /\ raised' = None
            /\ builder'.lftp_statuses = builder.lftp_statuses
            /\ active_downloading_file_names' = active_downloading_file_names
            /\ PoppedAreFed'
            /\ new_model' = BuildModel(builder')]_vars
    /\ [](StatusFailed => raised = None /\ pc \in {"lock", "apply"})
    /\ [][(StatusFailed /\ pc' = "idle") =>
            /\ raised' = None
            /\ model' = new_model
            /\ builder'.lftp_statuses = builder.lftp_statuses
            /\ active_downloading_file_names' = active_downloading_file_names]_vars

\* A tick whose status() failed has applied its diff: the file a new remote
\* scan reported is in the Model and the engine's last RUNNING status is kept.
C15_Witness ==
    /\ StatusFailed /\ pc = "apply" /\ model_diff = <<>>
    /\ popped.remote_scan = [files |-> {"a"}]
    /\ popped.extract_statuses # Nothing
    /\ model["a"] # NoFile /\ model["a"].state = "DOWNLOADING"
    /\ builder.lftp_statuses["a"] = "RUNNING"
    /\ active_downloading_file_names = {"a"}

\* C16: the Model's files change, and the listener is notified, only in steps
\* of the loop thread that begin and end with the loop holding the model
\* lock; the loop holds the lock from the diff to the end of the apply phase
\* without a break; and a client thread inside get_model_files,
\* add_model_listener, remove_model_listener or
\* get_model_files_and_add_listener holds the lock itself and never meets a
\* tick whose diff is under way.
C16_ChangesUnderLock ==
    /\ [][(model' # model \/ (notified' # notified /\ notified' # <<>>)) =>
            /\ model_lock = "loop" /\ model_lock' = "loop"
            /\ pc = "apply" /\ cpc = "idle"]_vars
    /\ [](pc = "apply" <=> model_lock = "loop")
    /\ [](cpc # "idle" => model_lock = "client" /\ pc # "apply" /\ model_diff = <<>>)

\* The loop is in the middle of a diff of two records, the listener has got
\* the first event, and the client thread is outside the model.
C16_Witness ==
    /\ pc = "apply" /\ model_lock = "loop"
    /\ Len(model_diff) = 1 /\ Len(notified) = 1
    /\ model # new_model
    /\ Listener \in listeners /\ cpc = "idle"

\* The long-lived worker processes exit() terminates and joins.
Processes == {"active_scan", "local_scan", "remote_scan", "extract"}

\* Positions of the call in the log of exit().
Positions(call) == {i \in 1..Len(exit_calls) : exit_calls[i] = call}

\* In the log of exit(): one shutdown request to the transfer engine, before
\* every terminate; one terminate and one join per worker process, every
\* terminate before every join.
ExitOrdered ==
    /\ Cardinality(Positions("lftp.exit")) = 1
    /\ \A w \in Processes :
        /\ Cardinality(Positions(w \o ".terminate")) = 1
        /\ Cardinality(Positions(w \o ".join")) = 1
        /\ \A i \in Positions("lftp.exit"), j \in Positions(w \o ".terminate") : i < j
        /\ \A v \in Processes :
            \A i \in Positions(w \o ".terminate"), j \in Positions(v \o ".join") : i < j

\* C17: exit() on a started controller asks the transfer engine to shut down
\* before it terminates any worker, terminates the active, local and remote
\* scanners and the extractor before it joins any of them, and leaves the
\* controller not started; on a controller that is not started (never
\* started, or already exited) no such call is made.
C17_ExitOrder ==
    /\ [][exit_calls' # exit_calls =>
            /\ started /\ ~started'
            /\ exit_calls = <<>>
            /\ ExitOrdered']_vars
    /\ [][~started => exit_calls' = exit_calls]_vars
    /\ [](exited <=> exit_calls # <<>>)
    /\ [](exited => ~started /\ ExitOrdered)

\* exit() ran on a started controller with a command waiting, a delete worker
\* in the list and a worker exception pending.
C17_Witness ==
    /\ exited /\ ~started /\ Len(exit_calls) = 10
    /\ command_queue # <<>> /\ active_command_processes # <<>> /\ pending # {}

\* The step notifies the listener of one more event.
Notifies == notified' # notified /\ notified' # <<>>

\* C18: when the loop has applied the whole diff of a tick, the Model is the
\* model the ModelBuilder just built, file by file; a listener registered in
\* that phase has got exactly the events of the diff records, one per record
\* and in the order the diff engine emitted them; each event is the one of
\* its kind of change (file_added for a new name, file_removed for a name
\* that left, file_updated otherwise), and no file that did not change has an
\* event.
C18_ApplyEqualsBuilt ==
    /\ [](pc = "apply" /\ model_diff = <<>> => model = new_model)
    /\ [](pc = "apply" =>
            IF Listener \in listeners
            THEN notified \o EventsOf(model_diff) = due
            ELSE notified = <<>>)
    /\ [](\A i, j \in 1..Len(notified) :
            i # j => notified[i].name # notified[j].name)
    /\ [][Notifies =>
            LET e == notified'[Len(notified')] IN
            /\ notified' = Append(notified, e)
            /\ model[e.name] # model'[e.name]
            /\ model'[e.name] = new_model[e.name]
            /\ \A n \in Names \ {e.name} : model'[n] = model[n]
            /\ e.change = "ADDED" <=> model[e.name] = NoFile
            /\ e.change = "REMOVED" <=> model'[e.name] = NoFile
            /\ e.change \in {"ADDED", "REMOVED", "UPDATED"}]_vars
    /\ [][(pc = "apply" /\ model' # model) =>
            (Listener \in listeners => Notifies)]_vars

\* A tick has applied a diff of two records in front of the listener: one
\* file was removed and then the other updated.
C18_Witness ==
    /\ pc = "apply" /\ model_diff = <<>> /\ Listener \in listeners
    /\ Len(notified) = 2
    /\ notified[1].change = "REMOVED" /\ notified[2].change = "UPDATED"

\* The name n reaches DOWNLOADED in the step: it is DOWNLOADED after it, and
\* was not in the Model or was in another state before it.
ReachesDownloaded(n) ==
    /\ n \in InState(model', "DOWNLOADED")
    /\ n \notin InState(model, "DOWNLOADED")

\* C19: from the empty Model on, at the end of every tick (and after every
\* applied diff record) each file the Model holds in state DOWNLOADED has its
\* name in persist.downloaded_file_names; a name enters the set exactly when
\* a diff record adds the file in state DOWNLOADED or updates it from another
\* state to DOWNLOADED, and no name ever leaves the set.
C19_DownloadedRecorded ==
    /\ [](InState(model, "DOWNLOADED") \subseteq persist.downloaded_file_names)
    /\ [][/\ persist.downloaded_file_names \subseteq persist'.downloaded_file_names
          /\ \A n \in Names :
                n \in persist'.downloaded_file_names \ persist.downloaded_file_names
                    => pc = "apply" /\ ReachesDownloaded(n)
          /\ \A n \in Names :
                ReachesDownloaded(n) => n \in persist'.downloaded_file_names]_vars

\* A tick has ended with "a" in state DOWNLOADED and recorded as downloaded,
\* after its remote copy has gone.
C19_Witness ==
    /\ pc = "idle" /\ "a" \in InState(model, "DOWNLOADED")
    /\ "a" \in persist.downloaded_file_names
    /\ model["a"].remote_size = None

\* The pops of the tick under way returned nothing: the three scanners and
\* the extractor had no result and no extraction completed.
NothingNew ==
    /\ popped.remote_scan = Nothing /\ popped.local_scan = Nothing
    /\ popped.active_scan = Nothing /\ popped.extract_statuses = Nothing
    /\ popped.extracted_results = {}

\* C20: in a tick where the remote, local or active scanner or the extractor
\* has no new result, the ModelBuilder input of that stream is after the
\* feeding what it was before (so an input changes only when a result of its
\* stream is popped); and a tick whose pops return nothing, while the transfer
\* engine fails or reports the statuses it reported before, builds the Model
\* that is already published: no file is removed or changed.
C20_StickyInputs ==
    [][(pc = "update" /\ pc' = "lock") =>
        /\ popped'.remote_scan = Nothing => builder'.remote_files = builder.remote_files
        /\ popped'.local_scan = Nothing => builder'.local_files = builder.local_files
        /\ popped'.active_scan = Nothing => builder'.active_files = builder.active_files
        /\ popped'.extract_statuses = Nothing =>
            /\ builder'.extract_statuses = builder.extract_statuses
            /\ active_extracting_file_names' = active_extracting_file_names
        /\ popped'.extracted_results = {} =>
            /\ builder'.extracted_files = builder.extracted_files
            /\ persist' = persist
        /\ (NothingNew' /\ builder'.lftp_statuses = builder.lftp_statuses)
                => new_model' = model]_vars

\* A tick popped nothing from any scanner nor from the extractor while the
\* builder held an observation of each stream for "a", and rebuilt the
\* published Model.
C20_Witness ==
    /\ pc = "lock" /\ popped # NoPop /\ NothingNew
    /\ builder.remote_files = {"a"} /\ builder.local_files["a"] = "Full"
    /\ builder.active_files["a"] = "Part"
    /\ builder.extract_statuses["a"] = "EXTRACTING"
    /\ model["a"] # NoFile /\ new_model = model

\* The step adds or removes commands of the queue.
QueueChanges == command_queue' # command_queue

\* C21: commands leave the queue in the order they entered it, inside the
\* command loop only, which runs before the rebuild: each command is looked
\* up in the Model as the previous tick published it (the model that tick
\* built), the command loop changes neither the Model nor the ModelBuilder's
\* inputs nor the persist sets, and nothing the tick pops later is on record
\* when its commands are dispatched.
C21_FifoOnPublishedModel ==
    /\ [][QueueChanges =>
            \/ /\ Len(command_queue') = Len(command_queue) + 1
               /\ SubSeq(command_queue', 1, Len(command_queue)) = command_queue
            \/ /\ command_queue # <<>>
               /\ command_queue' = Tail(command_queue)
               /\ pc = "commands" /\ pc' = "commands"
               /\ disp'.done /\ disp'.command = Head(command_queue)
               /\ disp'.file = new_model[disp'.command.filename]]_vars
    /\ [](pc = "commands" => model = new_model /\ model_diff = <<>>)
    /\ [][pc = "commands" =>
            UNCHANGED <<model, new_model, builder, persist,
                        active_downloading_file_names,
                        active_extracting_file_names>>]_vars

\* Two different commands were waiting; the loop has dispatched the older
\* one, a QUEUE for a name the published Model does not hold yet, and its
\* callbacks were told of the failure; the newer one is still waiting.
C21_Witness ==
    /\ pc = "commands" /\ disp.done
    /\ disp.command.action = "QUEUE" /\ disp.file = NoFile
    /\ Len(command_queue) = 1 /\ Head(command_queue).action = "STOP"
    /\ disp.delivered # <<>>

\* No Controller call holds the model lock: the client thread is outside its
\* calls and the loop thread is outside the critical section of
\* __update_model (outside process(), or before the acquire).
NoCallHoldsLock == cpc = "idle" /\ pc # "apply"

\* C22: the model lock is released by the call that acquired it: whenever
\* no Controller call holds it the lock is free, so the next
\* get_model_files, add_model_listener, remove_model_listener,
\* get_model_files_and_add_listener or process() can acquire it, also after
\* a call that ended with an error raised inside its critical section.
C22_LockReleased == NoCallHoldsLock => model_lock = "free"

\* __cleanup_commands run on the list of this state calls the post-callback
\* of worker i: the worker is not alive, and the loop reaches it (no dead
\* worker before it raises from propagate_exception).
PostCallbackFires(i) ==
    /\ ~active_command_processes[i].alive
    /\ \/ FirstFailing(active_command_processes) = 0
       \/ i <= FirstFailing(active_command_processes)

\* C23: the post-callback of a delete worker fires exactly once over the
\* whole execution, in the first tick that finds the worker not alive, and
\* never while the worker is alive: a worker of the list has at most one
\* call of its post-callback, none while it is alive, and a tick's
\* __cleanup_commands calls the post-callback only of workers that have
\* none yet. This holds also when an earlier tick ended with a dead
\* worker's exception and process() is called again.
C23_PostCallbackOnce ==
    /\ [](\A i \in 1..Len(active_command_processes) :
            /\ active_command_processes[i].post_calls <= 1
            /\ active_command_processes[i].alive
                    => active_command_processes[i].post_calls = 0)
    /\ [][CleanupRuns =>
            \A i \in 1..Len(active_command_processes) :
                PostCallbackFires(i)
                    => active_command_processes[i].post_calls = 0]_vars

====
